---- MODULE Spec2Model ----
(***************************************************************************)
(* A model of atollk/geoguessr-scripts:                                    *)
(*   - learnable_meta_anki/anki.py   (image download, card, deck, package) *)
(*   - learnable_meta_anki/scrape.py (table scrape of one map)             *)
(*   - source_loader/plonkit.py      (content classifier, step segmenter)  *)
(*   - plonkit_llm/plonkit.py        (process_all_pages and its session)   *)
(* Strings are sequences of one-character strings, so that basename,       *)
(* query stripping, prefix tests and concatenation are computed as the     *)
(* code computes them.                                                     *)
(***************************************************************************)
EXTENDS Integers, Sequences, FiniteSets, TLC

VARIABLES
    \* ---- learnable_meta_anki/anki.py
    pc,                 \* position in create_anki_package / _deck / _cards_from_meta
    config,             \* Config(custom_image, select_image)
    responses,          \* what the image server answers for each URL
    meta_name,          \* create_anki_cards_from_meta: meta_name
    meta_html_content,  \* create_anki_cards_from_meta: the img tags of the fragment
    i,                  \* _download_images: enumerate index
    download_results,   \* _download_images: download_results
    question_images,    \* create_anki_cards_from_meta: question_images
    cards,              \* create_anki_cards_from_meta: cards
    disk,               \* files written in workdir: set of [path, url]
    log,                \* logger.error / logger.warning records
    map_list,           \* create_anki_package: map_list, each with the page the site serves
    mapIdx,             \* create_anki_package: position in map_list
    metas,              \* create_anki_deck: metas, in dict order
    entryIdx,           \* create_anki_deck: position in metas.items()
    deck,               \* create_anki_deck: the notes of the deck
    new_media_files,    \* create_anki_deck: new_media_files
    package,            \* create_anki_package: package (decks, media_files)
    hash_secret,        \* per execution: the str hash function of that interpreter
    deck_id,            \* per execution: the Deck made by create_anki_deck
    \* ---- learnable_meta_anki/scrape.py
    browser,            \* which browser can be started on this machine
    page,               \* what the site serves for the map: the table and its cells
    driver,             \* _webdriver: the session ("none", "open", "quit")
    quits,              \* how often driver.quit() ran
    tdIdx,              \* scrape_map: position in td_elements
    result,             \* scrape_map: result, in dict order
    inner_html,         \* _get_raw_html_text: element.get_attribute("innerHTML")
    td_text,            \* scrape_map: td_text
    xpath_meta_name,    \* scrape_map: xpath_meta_name
    page_dom,           \* the elements of the page after the click, in document order
    target_div,         \* scrape_map: target_div (0: NoSuchElementException)
    map_containers,     \* load_map_list: map_containers, each complete or not
    containerIdx,       \* load_map_list: position in map_containers
    maps_data,          \* load_map_list: maps_data
    \* ---- plonkit_llm/plonkit.py
    country_links,      \* process_all_pages: country_links, each page savable or not
    countryIdx,         \* process_all_pages: position in country_links
    pdfs,               \* the PDF files written by save_as_pdf
    \* ---- source_loader/plonkit.py
    section_element,    \* parse_step_content_section: the section's DOM
    content_block,      \* parse_step_content_section: the block returned
    sections,           \* parse_subpage: sections
    secIdx,             \* parse_subpage: position in sections
    steps,              \* parse_subpage: steps
    current_step,       \* parse_subpage: current_step (<<>> is None)
    classified          \* the sections parse_step_content_section was called on

cardVars == <<meta_name, meta_html_content, i, download_results, question_images, cards>>
deckVars == <<metas, entryIdx, deck, new_media_files>>
pkgVars == <<map_list, mapIdx, package>>
envVars == <<config, responses>>
deckIdVars == <<hash_secret, deck_id>>
ankiVars == <<envVars, cardVars, disk, deckVars, pkgVars, deckIdVars>>
resolverVars == <<inner_html, td_text, xpath_meta_name, page_dom, target_div>>
scopeVars == <<map_containers, containerIdx, maps_data, country_links, countryIdx, pdfs>>
scrapeVars == <<browser, page, driver, quits, tdIdx, result, resolverVars, scopeVars>>
plonkVars == <<section_element, content_block, sections, secIdx, steps, current_step,
               classified>>

\* ------------------------------------------------------------------ bounds

MaxImgs == 3
MaxMaps == 2

\* ----------------------------------------------------------------- strings

NoneVal == <<"<None>">>

\* the position of the last occurrence of c in s, 0 when there is none
RECURSIVE LastIndexOf(_, _)
LastIndexOf(s, c) ==
    IF s = <<>> THEN 0
    ELSE IF s[Len(s)] = c THEN Len(s)
    ELSE LastIndexOf(SubSeq(s, 1, Len(s) - 1), c)

\* the position of the first occurrence of c in s, 0 when there is none
RECURSIVE FirstIndexOf(_, _)
FirstIndexOf(s, c) ==
    IF s = <<>> THEN 0
    ELSE IF s[1] = c THEN 1
    ELSE LET r == FirstIndexOf(Tail(s), c) IN IF r = 0 THEN 0 ELSE r + 1

\* os.path.basename: what follows the last "/"
Basename(s) == SubSeq(s, LastIndexOf(s, "/") + 1, Len(s))

\* filename.split("?")[0] when "?" is in filename
StripQuery(s) ==
    IF FirstIndexOf(s, "?") = 0 THEN s ELSE SubSeq(s, 1, FirstIndexOf(s, "?") - 1)

\* str(i) of an enumerate index
DigitStr == <<"0", "1", "2", "3", "4", "5", "6", "7", "8", "9">>
IdxStr(n) == DigitStr[n + 1]

SeqsUpTo(S, n) == UNION {[1..k -> S] : k \in 0..n}

Range(s) == {s[k] : k \in 1..Len(s)}

\* ------------------------------------------------------------ anki.py data

Workdir == <<"w", "o", "r", "k">>

\* image URLs of the scraped fragments; U2 carries a query string
U1 == <<"h", "/", "a">>
U2 == <<"g", "/", "a", "?", "v">>
U3 == <<"h", "/", "b">>
Urls == {U1, U2, U3}

HttpStatus == {"200", "404", "exc"}

\* an <img> of a fragment: its src attribute (NoneVal: absent) and class attribute
ImgElems ==
    { [src |-> NoneVal, class |-> "c"],
      [src |-> U1, class |-> ""],
      [src |-> U2, class |-> "c"] }

Names == {"m1", "m2"}

XPng == <<"x", ".", "p", "n", "g">>
YPng == <<"y", ".", "p", "n", "g">>

\* a config.custom_image value: a str (one path) or a list of str
CustomValues ==
    { [kind |-> "str", str |-> <<XPng>>, list |-> <<>>],
      [kind |-> "list", str |-> <<>>, list |-> << <<XPng>> >>],
      [kind |-> "list", str |-> <<>>, list |-> << <<XPng>>, <<YPng>> >>] }

\* dicts are functions on a subset of the keys
Dicts(K, V) == UNION {[D -> V] : D \in SUBSET K}

\* -------------------------------------------------------- anki.py operators

KeepClassAttributes(html) == html

\* _remove_class_attributes: every class attribute deleted
RemoveClassAttributes(html) == [k \in 1..Len(html) |-> [html[k] EXCEPT !.class = ""]]

\* _download_images, lines 71-73: image_<i>_<basename>, cut at the first "?"
Filename(idx, img_url) == StripQuery(<<"image_", IdxStr(idx), "_">> \o Basename(img_url))

\* _download_images, line 75: os.path.join(temp_folder, filename)
FilePath(temp_folder, idx, img_url) == <<temp_folder, Filename(idx, img_url)>>

\* os.path.basename of a path held as its components
PathBasename(path) == path[Len(path)]

\* create_anki_cards_from_meta, lines 105-108: a str is coerced to a list
CustomImageList(v) == IF v.kind = "str" THEN <<v.str>> ELSE v.list

\* content_images[k - 1], line 111, is Python indexing: 0..n-1 from the front,
\* -n..-1 from the end, anything else raises IndexError (caught, line 112)
PyIndex(content_images, idx) ==
    LET n == Len(content_images)
    IN IF idx >= 0 /\ idx < n THEN <<content_images[idx + 1]>>
       ELSE IF idx < 0 /\ idx >= 0 - n THEN <<content_images[n + idx + 1]>>
       ELSE <<>>

SelectBeforeCustomQuestionImages(content_images, name, cfg) ==
    IF name \in DOMAIN cfg.select_image
    THEN PyIndex(content_images, cfg.select_image[name] - 1)
    ELSE IF name \in DOMAIN cfg.custom_image
    THEN CustomImageList(cfg.custom_image[name])
    ELSE content_images

\* create_anki_cards_from_meta, lines 104-116: the three override tiers
QuestionImages(content_images, name, cfg) ==
    IF name \in DOMAIN cfg.custom_image
    THEN CustomImageList(cfg.custom_image[name])
    ELSE IF name \in DOMAIN cfg.select_image
    THEN PyIndex(content_images, cfg.select_image[name] - 1)
    ELSE content_images

\* lines 110-114: whether the lookup raises IndexError (which is logged)
SelectRaisesIndexError(content_images, name, cfg) ==
    /\ name \notin DOMAIN cfg.custom_image
    /\ name \in DOMAIN cfg.select_image
    /\ LET idx == cfg.select_image[name] - 1
       IN PyIndex(content_images, idx) = <<>>

\* lines 117-126: one Note per question image
Note(name, image, html) ==
    [title |-> name, front |-> PathBasename(image), back |-> RemoveClassAttributes(html)]

\* ---------------------------------------------------------- anki.py actions

AbortingDownloadStep ==
    /\ pc = "download"
    /\ i < Len(meta_html_content)
    /\ LET src == meta_html_content[i + 1].src
           file_path == FilePath(Workdir, i, src)
       IN IF src = NoneVal
          THEN /\ i' = i + 1
               /\ UNCHANGED <<download_results, disk, log>>
          ELSE IF responses[src] = "200"
          THEN /\ disk' = {f \in disk : f.path # file_path}
                              \cup {[path |-> file_path, url |-> src]}
               /\ download_results' = Append(download_results, file_path)
               /\ i' = i + 1
               /\ UNCHANGED log
          ELSE /\ log' = Append(log, [what |-> "download", item |-> src])
               /\ i' = Len(meta_html_content)
               /\ UNCHANGED <<download_results, disk>>
    /\ UNCHANGED <<scrapeVars, plonkVars, pc, deckIdVars, envVars, meta_name,
                   meta_html_content, question_images, cards,
                   deckVars, pkgVars>>

\* _download_images, lines 60-88: one iteration of the loop over the img tags
DownloadStep ==
    /\ pc = "download"
    /\ i < Len(meta_html_content)
    /\ LET src == meta_html_content[i + 1].src
           file_path == FilePath(Workdir, i, src)
       IN IF src = NoneVal
          THEN /\ i' = i + 1
               /\ UNCHANGED <<download_results, disk, log>>
          ELSE IF responses[src] = "200"
          THEN /\ disk' = {f \in disk : f.path # file_path}
                              \cup {[path |-> file_path, url |-> src]}
               /\ download_results' = Append(download_results, file_path)
               /\ i' = i + 1
               /\ UNCHANGED log
          ELSE /\ log' = Append(log, [what |-> "download", item |-> src])
               /\ i' = i + 1
               /\ UNCHANGED <<download_results, disk>>
    /\ UNCHANGED <<scrapeVars, plonkVars, pc, deckIdVars, envVars, meta_name,
                   meta_html_content, question_images, cards,
                   deckVars, pkgVars>>

\* create_anki_cards_from_meta, lines 102-116: _download_images has returned
SelectQuestionImages ==
    /\ pc = "download"
    /\ i = Len(meta_html_content)
    /\ question_images' = QuestionImages(download_results, meta_name, config)
    /\ log' = IF SelectRaisesIndexError(download_results, meta_name, config)
              THEN Append(log, [what |-> "index", item |-> <<meta_name>>])
              ELSE log
    /\ pc' = "notes"
    /\ UNCHANGED <<scrapeVars, plonkVars, deckIdVars, envVars, meta_name,
                   meta_html_content, i, download_results, cards,
                   disk, deckVars, pkgVars>>

\* create_anki_cards_from_meta, lines 117-127
BuildNotes ==
    /\ pc = "notes"
    /\ cards' = [k \in 1..Len(question_images) |->
                    Note(meta_name, question_images[k], meta_html_content)]
    /\ pc' = "returned"
    /\ UNCHANGED <<scrapeVars, plonkVars, deckIdVars, envVars, meta_name,
                   meta_html_content, i, download_results,
                   question_images, disk, log, deckVars, pkgVars>>

\* create_anki_package, lines 166-173: the custom images of the config, as a set
CustomMediaFiles(cfg) ==
    { <<"learnable_meta_anki", "images">> \o img :
        img \in UNION { Range(CustomImageList(cfg.custom_image[n])) :
                          n \in DOMAIN cfg.custom_image } }

\* list(set): some order of the set's elements, each once
RECURSIVE SetToSeq(_)
SetToSeq(S) ==
    IF S = {} THEN <<>>
    ELSE LET x == CHOOSE y \in S : TRUE IN <<x>> \o SetToSeq(S \ {x})

\* create_anki_package, lines 175-177: scrape_map returns the metas of the page
ScrapeMapReturns ==
    /\ pc = "package_loop"
    /\ mapIdx <= Len(map_list)
    /\ map_list[mapIdx].table
    /\ metas' = map_list[mapIdx].metas
    /\ entryIdx' = 1
    /\ deck' = <<>>
    /\ new_media_files' = <<>>
    /\ pc' = "deck_loop"
    /\ UNCHANGED <<scrapeVars, plonkVars, deckIdVars, envVars, cardVars, disk, log, pkgVars>>

\* scrape.py line 147 raises TimeoutException when the table never appears;
\* anki.py line 177 does not catch it: it leaves create_anki_package
ScrapeMapRaises ==
    /\ pc = "package_loop"
    /\ mapIdx <= Len(map_list)
    /\ ~map_list[mapIdx].table
    /\ pc' = "raised"
    /\ UNCHANGED <<scrapeVars, plonkVars, deckIdVars, envVars, cardVars, disk, log, deckVars,
                   pkgVars>>

\* create_anki_deck, lines 147-153: the call for the next item of metas
CallCreateCards ==
    /\ pc = "deck_loop"
    /\ entryIdx <= Len(metas)
    /\ meta_name' = metas[entryIdx].name
    /\ meta_html_content' = metas[entryIdx].html
    /\ i' = 0
    /\ download_results' = <<>>
    /\ question_images' = <<>>
    /\ cards' = <<>>
    /\ pc' = "download"
    /\ UNCHANGED <<scrapeVars, plonkVars, deckIdVars, envVars, disk, log, deckVars, pkgVars>>

\* create_anki_deck, lines 154-156: the notes and the media files of the call
CollectCards ==
    /\ pc = "returned"
    /\ deck' = deck \o cards
    /\ new_media_files' = new_media_files \o download_results
    /\ entryIdx' = entryIdx + 1
    /\ pc' = "deck_loop"
    /\ UNCHANGED <<scrapeVars, plonkVars, deckIdVars, envVars, cardVars, disk, log, metas, pkgVars>>

\* create_anki_package, line 185: package.media_files += media_files
ExtendMediaFiles(media_files, new) == media_files \o new

\* create_anki_deck line 157 and create_anki_package lines 185-186
ReturnDeck ==
    /\ pc = "deck_loop"
    /\ entryIdx > Len(metas)
    /\ package' = [decks |-> Append(package.decks,
                                    [name |-> map_list[mapIdx].name, notes |-> deck]),
                   media_files |-> ExtendMediaFiles(package.media_files, new_media_files)]
    /\ mapIdx' = mapIdx + 1
    /\ pc' = "package_loop"
    /\ UNCHANGED <<scrapeVars, plonkVars, deckIdVars, envVars, cardVars, disk, log, deckVars,
                   map_list>>

\* create_anki_package, line 189
ReturnPackage ==
    /\ pc = "package_loop"
    /\ mapIdx > Len(map_list)
    /\ pc' = "package_returned"
    /\ UNCHANGED <<scrapeVars, plonkVars, deckIdVars, envVars, cardVars, disk, log, deckVars,
                   pkgVars>>

\* ------------------------------------------- anki.py: the deck id of a run

MaxHash == 2

\* two independent executions of the program
Executions == {1, 2}

MapNames == {"A", "B"}

\* hash() of a str in CPython is one function for the life of an interpreter,
\* keyed by a secret drawn when the interpreter starts (PYTHONHASHSEED is set
\* nowhere in the repository): any value of the range for any string
HashValues == 0..MaxHash

PyHash(secret, string) == secret[string]

\* create_anki_deck, lines 141-145, in one execution: Deck(deck_id=hash(name))
CreateDeck ==
    /\ pc = "deck_id"
    /\ \E e \in Executions, name \in MapNames :
          /\ deck_id[e] = <<>>
          /\ deck_id' = [deck_id EXCEPT
                            ![e] = <<[name |-> name,
                                      deck_id |-> PyHash(hash_secret[e], name)]>>]
    /\ UNCHANGED <<scrapeVars, plonkVars, pc, log, envVars, cardVars, disk, deckVars, pkgVars,
                   hash_secret>>

\* ---------------------------------------------------------------- scrape.py

MaxCells == 3

\* what happens to one td: the step of lines 156-173 that fails, if any
CellOutcomes == {"ok", "no_inner_html", "click_fails", "not_found", "no_outer_html"}

Labels == {"a", "b"}

CellKinds == [label : Labels, outcome : CellOutcomes]

\* result[key] = value of a dict held in insertion order
RECURSIVE DictSet(_, _, _)
DictSet(dict, key, value) ==
    IF dict = <<>> THEN <<[name |-> key, html |-> value]>>
    ELSE IF dict[1].name = key THEN <<[name |-> key, html |-> value]>> \o Tail(dict)
    ELSE <<dict[1]>> \o DictSet(Tail(dict), key, value)

Keys(dict) == {dict[k].name : k \in 1..Len(dict)}

\* the outerHTML of the div found for the td at position k
OuterHtml(k) == [cell |-> k]

\* _webdriver, lines 51-61: Chrome, else Firefox, else the exception of Firefox
StartDriver ==
    /\ pc = "start"
    /\ IF browser = "chrome"
       THEN /\ driver' = "open"
            /\ pc' = "load"
            /\ UNCHANGED log
       ELSE /\ log' = Append(log, [what |-> "chrome", item |-> <<browser>>])
            /\ IF browser = "firefox"
               THEN driver' = "open" /\ pc' = "load"
               ELSE driver' = "none" /\ pc' = "raised"
    /\ UNCHANGED <<ankiVars, plonkVars, scopeVars, resolverVars, browser, page, quits, tdIdx,
                   result>>

LeakyLoadPage ==
    /\ pc = "load"
    /\ pc' = IF page.table THEN "cells" ELSE "raised"
    /\ UNCHANGED <<ankiVars, plonkVars, scopeVars, resolverVars, log, browser, page, driver,
                   quits, tdIdx, result>>

\* scrape_map, lines 143-150: the wait for the table raises when it never
\* appears; the finally of _webdriver (line 66) quits the driver
LoadPage ==
    /\ pc = "load"
    /\ IF page.table
       THEN /\ pc' = "cells"
            /\ UNCHANGED <<driver, quits>>
       ELSE /\ pc' = "raised"
            /\ driver' = "quit"
            /\ quits' = quits + 1
    /\ UNCHANGED <<ankiVars, plonkVars, scopeVars, resolverVars, log, browser, page, tdIdx, result>>

RaisingCellStep ==
    /\ pc = "cells"
    /\ tdIdx <= Len(page.cells)
    /\ LET td == page.cells[tdIdx]
       IN IF td.outcome = "ok"
          THEN /\ result' = DictSet(result, td.label, OuterHtml(tdIdx))
               /\ tdIdx' = tdIdx + 1
               /\ UNCHANGED <<pc, log, driver, quits>>
          ELSE /\ pc' = "raised"
               /\ driver' = "quit"
               /\ quits' = quits + 1
               /\ UNCHANGED <<log, result, tdIdx>>
    /\ UNCHANGED <<ankiVars, plonkVars, scopeVars, resolverVars, browser, page>>

\* scrape_map, lines 155-175: one iteration of the loop over the td elements
CellStep ==
    /\ pc = "cells"
    /\ tdIdx <= Len(page.cells)
    /\ LET td == page.cells[tdIdx]
       IN IF td.outcome = "ok"
          THEN /\ result' = DictSet(result, td.label, OuterHtml(tdIdx))
               /\ UNCHANGED log
          ELSE /\ log' = Append(log, [what |-> td.outcome, item |-> <<td.label>>])
               /\ UNCHANGED result
    /\ tdIdx' = tdIdx + 1
    /\ UNCHANGED <<ankiVars, plonkVars, scopeVars, resolverVars, pc, browser, page, driver, quits>>

\* scrape_map, line 177, leaving the with block of line 141
ReturnResult ==
    /\ pc = "cells"
    /\ tdIdx > Len(page.cells)
    /\ driver' = "quit"
    /\ quits' = quits + 1
    /\ pc' = "returned"
    /\ UNCHANGED <<ankiVars, plonkVars, scopeVars, resolverVars, log, browser, page, tdIdx, result>>

\* --------------------------------------------------- source_loader/plonkit.py

MaxNodes == 4

\* 'https://www.plonkit.net' and 'https:'; the scheme and the host are held as
\* one symbol each, the code never looks inside them
SitePrefix == <<"https:", "/", "/", "www.plonkit.net">>
HttpsPrefix == <<"https:">>

\* attribute values: protocol-relative, root-relative and absolute URLs
ProtoRel == <<"/", "/", "c", "/", "i">>
RootRel == <<"/", "i">>
AbsUrl == <<"https:", "/", "/", "c", "/", "i">>

StartsWith(s, prefix) == Len(s) >= Len(prefix) /\ SubSeq(s, 1, Len(prefix)) = prefix

\* Python truth of an attribute value: neither None nor ''
Truthy(v) == v # NoneVal /\ v # <<>>

\* x or ''
OrEmpty(v) == IF Truthy(v) THEN v ELSE <<>>

Whitespace == {" ", "\n", "\t"}

\* str.strip()
RECURSIVE LStrip(_)
LStrip(s) == IF s # <<>> /\ s[1] \in Whitespace THEN LStrip(Tail(s)) ELSE s
RECURSIVE RStrip(_)
RStrip(s) ==
    IF s # <<>> /\ s[Len(s)] \in Whitespace THEN RStrip(SubSeq(s, 1, Len(s) - 1)) ELSE s
Strip(s) == RStrip(LStrip(s))

\* str.replace(old, new): every non-overlapping occurrence, left to right
RECURSIVE Replace(_, _, _)
Replace(s, old, new) ==
    IF s = <<>> \/ old = <<>> THEN s
    ELSE IF StartsWith(s, old)
    THEN new \o Replace(SubSeq(s, Len(old) + 1, Len(s)), old, new)
    ELSE <<s[1]>> \o Replace(Tail(s), old, new)

\* A section's DOM: its descendant elements in document order, each with its
\* depth below the section (a child of the section has depth 1), its own text
\* and the attributes the code reads.
Element(tag, src, data_src, href, text) ==
    [tag |-> tag, src |-> src, data_src |-> data_src, href |-> href, text |-> text]

ElementKinds ==
    { Element("figure", NoneVal, NoneVal, NoneVal, <<>>),
      Element("p", NoneVal, NoneVal, NoneVal, <<"w">>),
      Element("a", NoneVal, NoneVal, ProtoRel, <<"l">>),
      Element("a", NoneVal, NoneVal, AbsUrl, <<>>),
      Element("img", ProtoRel, NoneVal, NoneVal, <<>>),
      Element("img", NoneVal, RootRel, NoneVal, <<>>) }

\* an element at a depth
Node(kind, depth) ==
    [tag |-> kind.tag, src |-> kind.src, data_src |-> kind.data_src, href |-> kind.href,
     text |-> kind.text, depth |-> depth]

\* the depths of n elements in document order: an element is a child of the
\* section or lies at most one level below the element before it
DepthSeqs(n) ==
    { ds \in [1..n -> 1..n] :
        \A k \in 1..n : ds[k] <= (IF k = 1 THEN 1 ELSE ds[k - 1] + 1) }

\* the last element of the subtree of element k (k itself when it is a leaf)
RECURSIVE SubtreeEnd(_, _, _)
SubtreeEnd(dom, k, m) ==
    IF m < Len(dom) /\ dom[m + 1].depth > dom[k].depth
    THEN SubtreeEnd(dom, k, m + 1) ELSE m

\* element j lies inside element k
Inside(dom, j, k) == k < j /\ j <= SubtreeEnd(dom, k, k)

\* the elements the CSS selector 'figure a img' matches
FigureAImgMatches(dom) ==
    { n \in 1..Len(dom) :
        /\ dom[n].tag = "img"
        /\ \E a \in 1..Len(dom) :
              /\ dom[a].tag = "a" /\ Inside(dom, n, a)
              /\ \E f \in 1..Len(dom) : dom[f].tag = "figure" /\ Inside(dom, a, f) }

\* the elements the CSS selector 'figure a' matches
FigureAMatches(dom) ==
    { a \in 1..Len(dom) :
        /\ dom[a].tag = "a"
        /\ \E f \in 1..Len(dom) : dom[f].tag = "figure" /\ Inside(dom, a, f) }

TagMatches(dom, tag) == { n \in 1..Len(dom) : dom[n].tag = tag }

\* query_selector: the first match in document order, 0 (None) when there is none
First(matches) == IF matches = {} THEN 0 ELSE CHOOSE n \in matches : \A m \in matches : n <= m

\* inner_text of the elements a..b of the DOM
RECURSIVE TextOf(_, _, _)
TextOf(dom, a, b) == IF a > b THEN <<>> ELSE dom[a].text \o TextOf(dom, a + 1, b)

\* inner_text of element k, and of the section itself
InnerText(dom, k) == TextOf(dom, k, SubtreeEnd(dom, k, k))
SectionText(dom) == TextOf(dom, 1, Len(dom))

\* lines 147-150, 152-155, 182-185: "make URLs absolute", with the tests in
\* the order the code makes them
MakeAbsolute(url) ==
    IF Truthy(url) /\ StartsWith(url, <<"/">>) THEN SitePrefix \o url
    ELSE IF Truthy(url) /\ StartsWith(url, <<"/", "/">>) THEN HttpsPrefix \o url
    ELSE url

\* extract_text_with_link_replacement, lines 105-108
MakeHrefAbsolute(href) ==
    IF StartsWith(href, <<"/">>) THEN SitePrefix \o href
    ELSE IF StartsWith(href, <<"/", "/">>) THEN HttpsPrefix \o href
    ELSE href

\* extract_text_with_link_replacement, lines 96-103: the links that enter
\* link_replacements
ReplacedLinks(dom) ==
    { a \in TagMatches(dom, "a") : Truthy(dom[a].href) /\ InnerText(dom, a) # <<>> }

\* the links that add a new key to link_replacements, in document order
RECURSIVE KeyLinks(_, _)
KeyLinks(dom, n) ==
    IF n = 0 THEN <<>>
    ELSE KeyLinks(dom, n - 1) \o
         (IF /\ n \in ReplacedLinks(dom)
             /\ \A m \in ReplacedLinks(dom) :
                   m < n => InnerText(dom, m) # InnerText(dom, n)
          THEN <<n>> ELSE <<>>)

\* link_replacements, lines 99-109: text -> URL, a later link with the same
\* text overwriting the URL
LinkReplacementsWith(dom, Abs(_)) ==
    LET keys == KeyLinks(dom, Len(dom))
        last(k) == CHOOSE a \in ReplacedLinks(dom) :
                      /\ InnerText(dom, a) = InnerText(dom, keys[k])
                      /\ \A b \in ReplacedLinks(dom) :
                            InnerText(dom, b) = InnerText(dom, keys[k]) => b <= a
    IN [k \in 1..Len(keys) |->
           [text |-> InnerText(dom, keys[k]), url |-> Abs(dom[last(k)].href)]]

\* lines 115-116
RECURSIVE ApplyReplacements(_, _)
ApplyReplacements(full_text, link_replacements) ==
    IF link_replacements = <<>> THEN full_text
    ELSE ApplyReplacements(
             Replace(full_text, link_replacements[1].text, link_replacements[1].url),
             Tail(link_replacements))

\* extract_text_with_link_replacement
ExtractTextWithLinkReplacement(dom) ==
    Strip(ApplyReplacements(SectionText(dom), LinkReplacementsWith(dom, MakeHrefAbsolute)))

\* lines 138-140, 177-179: src, else the lazy-loading data-src
ImgSrc(el) == IF Truthy(el.src) THEN el.src ELSE el.data_src

\* download_image, awaited only when img_src is truthy (lines 158, 188)
PillowImage(img_src, downloaded) ==
    IF Truthy(img_src) /\ downloaded THEN "image" ELSE "None"

Block(kind, text, src_url, pillow_image, image_link_url) ==
    [kind |-> kind, text |-> text, src_url |-> src_url, pillow_image |-> pillow_image,
     image_link_url |-> image_link_url]

StandaloneFirstParseStepContentSection(dom, downloaded) ==
    LET figure_link_img == First(FigureAImgMatches(dom))
        standalone_img == First(TagMatches(dom, "img"))
    IN IF standalone_img # 0 /\ standalone_img # figure_link_img
       THEN LET img_src == MakeAbsolute(ImgSrc(dom[standalone_img]))
            IN Block("ImageContentBlock", <<>>, OrEmpty(img_src),
                     PillowImage(img_src, downloaded), <<>>)
       ELSE IF figure_link_img # 0
       THEN LET img_src == MakeAbsolute(ImgSrc(dom[figure_link_img]))
                link_element == First(FigureAMatches(dom))
                image_link_url == MakeAbsolute(IF link_element # 0
                                               THEN dom[link_element].href ELSE <<>>)
            IN Block("TextWithImageContentBlock", ExtractTextWithLinkReplacement(dom),
                     OrEmpty(img_src), PillowImage(img_src, downloaded),
                     OrEmpty(image_link_url))
       ELSE Block("TextContentBlock", ExtractTextWithLinkReplacement(dom),
                  <<>>, "None", <<>>)

\* parse_step_content_section, lines 121-198
ParseStepContentSection(dom, downloaded) ==
    LET figure_link_img == First(FigureAImgMatches(dom))
        standalone_img == First(TagMatches(dom, "img"))
    IN IF figure_link_img # 0
       THEN LET img_src == MakeAbsolute(ImgSrc(dom[figure_link_img]))
                link_element == First(FigureAMatches(dom))
                image_link_url == MakeAbsolute(IF link_element # 0
                                               THEN dom[link_element].href ELSE <<>>)
            IN Block("TextWithImageContentBlock", ExtractTextWithLinkReplacement(dom),
                     OrEmpty(img_src), PillowImage(img_src, downloaded),
                     OrEmpty(image_link_url))
       ELSE IF standalone_img # 0
       THEN LET img_src == MakeAbsolute(ImgSrc(dom[standalone_img]))
            IN Block("ImageContentBlock", <<>>, OrEmpty(img_src),
                     PillowImage(img_src, downloaded), <<>>)
       ELSE Block("TextContentBlock", ExtractTextWithLinkReplacement(dom),
                  <<>>, "None", <<>>)

\* one call of parse_step_content_section; the download of the image may fail
Classify ==
    /\ pc = "classify"
    /\ \E downloaded \in BOOLEAN :
          content_block' = <<ParseStepContentSection(section_element, downloaded)>>
    /\ pc' = "classified"
    /\ UNCHANGED <<ankiVars, scrapeVars, log, section_element, sections, secIdx, steps,
                   current_step, classified>>

\* the en dash of the heading pattern, held as one symbol
EnDash == "<en-dash>"
Digits == {"0", "1", "2", "3", "4", "5", "6", "7", "8", "9"}

\* the first position from k on whose character is not in class (Len + 1 when
\* the run reaches the end): a greedy \s* or \d+ starting at k ends before it
RECURSIVE RunEnd(_, _, _)
RunEnd(text, k, class) ==
    IF k <= Len(text) /\ text[k] \in class THEN RunEnd(text, k + 1, class) ELSE k

\* step_pattern.match(section_text), line 269 and 275:
\* r'Step\s+\d+\s*[-<en dash>]\s*(.+)' with re.IGNORECASE, anchored at the start;
\* '.' matches everything but a newline, '\s*' gives characters back to '(.+)'
StepMatch(text) ==
    LET word == << {"S", "s"}, {"T", "t"}, {"E", "e"}, {"P", "p"} >>
        isStep == Len(text) >= 4 /\ \A k \in 1..4 : text[k] \in word[k]
        spaceEnd == RunEnd(text, 5, Whitespace)
        digitEnd == RunEnd(text, spaceEnd, Digits)
        dash == RunEnd(text, digitEnd, Whitespace)
        afterDashSpace == RunEnd(text, dash + 1, Whitespace)
        starts == { q \in (dash + 1)..afterDashSpace : q <= Len(text) /\ text[q] # "\n" }
        start == CHOOSE q \in starts : \A r \in starts : r <= q
        stop == RunEnd(text, start, Range(text) \ {"\n"})
    IN IF /\ isStep
          /\ spaceEnd > 5
          /\ digitEnd > spaceEnd
          /\ dash <= Len(text)
          /\ text[dash] \in {"-", EnDash}
          /\ starts # {}
       THEN [matched |-> TRUE, group |-> SubSeq(text, start, stop - 1)]
       ELSE [matched |-> FALSE, group |-> <<>>]

MaxSections == 7

\* the sections of a page: a heading, a paragraph that only looks like one,
\* and an image
HeadingSection ==
    << Node(Element("h2", NoneVal, NoneVal, NoneVal,
                    <<"S", "t", "e", "p", " ", "1", " ", "-", " ", "A", " ", "\n", "x">>), 1) >>
ParagraphSection ==
    << Node(Element("p", NoneVal, NoneVal, NoneVal,
                    <<"S", "t", "e", "p", " ", "A">>), 1) >>
ImageSection == << Node(Element("img", ProtoRel, NoneVal, NoneVal, <<>>), 1) >>
SectionKinds == {HeadingSection, ParagraphSection, ImageSection}

ImplicitStepSegmentSection ==
    /\ pc = "segment"
    /\ secIdx <= Len(sections)
    /\ LET section == sections[secIdx]
           section_text == Strip(SectionText(section))
           step_match == StepMatch(section_text)
       IN IF step_match.matched
          THEN /\ steps' = steps \o current_step
               /\ current_step' = <<[title |-> Strip(step_match.group), blocks |-> <<>>]>>
               /\ UNCHANGED classified
          ELSE /\ \E downloaded \in BOOLEAN :
                     current_step' =
                         <<[title |-> IF current_step # <<>> THEN current_step[1].title
                                      ELSE <<>>,
                            blocks |-> Append(
                                IF current_step # <<>> THEN current_step[1].blocks ELSE <<>>,
                                ParseStepContentSection(section, downloaded))]>>
               /\ classified' = classified \cup {secIdx}
               /\ UNCHANGED steps
    /\ secIdx' = secIdx + 1
    /\ UNCHANGED <<ankiVars, scrapeVars, pc, log, section_element, content_block, sections>>

DroppingSegmentSection ==
    /\ pc = "segment"
    /\ secIdx <= Len(sections)
    /\ LET section == sections[secIdx]
           section_text == Strip(SectionText(section))
           step_match == StepMatch(section_text)
       IN IF step_match.matched
          THEN /\ current_step' = <<[title |-> Strip(step_match.group), blocks |-> <<>>]>>
               /\ UNCHANGED <<steps, classified>>
          ELSE IF current_step # <<>>
          THEN /\ \E downloaded \in BOOLEAN :
                     current_step' =
                         <<[current_step[1] EXCEPT
                               !.blocks = Append(@, ParseStepContentSection(section,
                                                                            downloaded))]>>
               /\ classified' = classified \cup {secIdx}
               /\ UNCHANGED steps
          ELSE UNCHANGED <<steps, current_step, classified>>
    /\ secIdx' = secIdx + 1
    /\ UNCHANGED <<ankiVars, scrapeVars, pc, log, section_element, content_block, sections>>

\* parse_subpage, lines 271-295: one iteration of the loop over the sections
SegmentSection ==
    /\ pc = "segment"
    /\ secIdx <= Len(sections)
    /\ LET section == sections[secIdx]
           section_text == Strip(SectionText(section))
           step_match == StepMatch(section_text)
       IN IF step_match.matched
          THEN /\ steps' = steps \o current_step
               /\ current_step' = <<[title |-> Strip(step_match.group), blocks |-> <<>>]>>
               /\ UNCHANGED classified
          ELSE IF current_step # <<>>
          THEN /\ \E downloaded \in BOOLEAN :
                     current_step' =
                         <<[current_step[1] EXCEPT
                               !.blocks = Append(@, ParseStepContentSection(section,
                                                                            downloaded))]>>
               /\ classified' = classified \cup {secIdx}
               /\ UNCHANGED steps
          ELSE UNCHANGED <<steps, current_step, classified>>
    /\ secIdx' = secIdx + 1
    /\ UNCHANGED <<ankiVars, scrapeVars, pc, log, section_element, content_block, sections>>

ForgetfulReturnSteps ==
    /\ pc = "segment"
    /\ secIdx > Len(sections)
    /\ pc' = "returned"
    /\ UNCHANGED <<ankiVars, scrapeVars, log, section_element, content_block, sections,
                   secIdx, steps, current_step, classified>>

\* parse_subpage, lines 297-301: the last step is added and the steps returned
ReturnSteps ==
    /\ pc = "segment"
    /\ secIdx > Len(sections)
    /\ steps' = steps \o current_step
    /\ pc' = "returned"
    /\ UNCHANGED <<ankiVars, scrapeVars, log, section_element, content_block, sections,
                   secIdx, current_step, classified>>

\* ------------------------------------------ scrape.py: the structural query

MaxDomNodes == 4

\* meta_map.name and the text of the clicked td
MapName == <<"M">>
CellLabel == <<"a">>

\* XPath contains(s, x): x is a substring of s
Contains(s, x) == \E k \in 0..(Len(s) - Len(x)) : SubSeq(s, k + 1, k + Len(x)) = x

\* the elements of the page: a tag and the element's own text (its text node)
PageElementKinds ==
    { [tag |-> "div", text |-> <<>>],
      [tag |-> "div", text |-> MapName],
      [tag |-> "div", text |-> CellLabel],
      [tag |-> "div", text |-> MapName \o CellLabel],
      [tag |-> "h1", text |-> <<>>] }

PageNode(kind, depth) == [tag |-> kind.tag, text |-> kind.text, depth |-> depth]

\* the string-value of element k: the text of k and of all its descendants
StringValue(d, k) == TextOf(d, k, SubtreeEnd(d, k, k))

\* the child elements of element k
ChildElements(d, k) == { j \in 1..Len(d) : Inside(d, j, k) /\ d[j].depth = d[k].depth + 1 }

\* node()[contains(., x)], line 165: a child node of k, its text node or a
\* child element, whose string-value contains x
HasChildNodeContaining(d, k, x) ==
    \/ Contains(d[k].text, x)
    \/ \E j \in ChildElements(d, k) : Contains(StringValue(d, j), x)

\* xpath_condition, line 165
XpathCondition(d, k, map_label, cell_label) ==
    /\ HasChildNodeContaining(d, k, map_label)
    /\ HasChildNodeContaining(d, k, cell_label)

AllMatches(d, map_label, cell_label) ==
    { k \in 1..Len(d) : XpathCondition(d, k, map_label, cell_label) }

\* //*{xpath_condition}[not(./descendant::*{xpath_condition})], line 166
InnermostMatches(d, map_label, cell_label) ==
    { k \in 1..Len(d) :
        /\ XpathCondition(d, k, map_label, cell_label)
        /\ ~ \E j \in 1..Len(d) :
                Inside(d, j, k) /\ XpathCondition(d, j, map_label, cell_label) }

\* .../div[not(./descendant::h1)], line 166
XpathMatches(d, map_label, cell_label) ==
    { c \in 1..Len(d) :
        /\ d[c].tag = "div"
        /\ ~ \E h \in 1..Len(d) : Inside(d, h, c) /\ d[h].tag = "h1"
        /\ \E k \in InnermostMatches(d, map_label, cell_label) : c \in ChildElements(d, k) }

\* driver.find_element(By.XPATH, xpath), line 167: the first match in document
\* order, NoSuchElementException (0) when there is none
FindElement ==
    /\ pc = "find"
    /\ target_div' = First(XpathMatches(page_dom, MapName, td_text))
    /\ pc' = IF target_div' = 0 THEN "not_found" ELSE "found"
    /\ UNCHANGED <<ankiVars, plonkVars, scopeVars, log, browser, page, driver, quits, tdIdx, result,
                   inner_html, td_text, xpath_meta_name, page_dom>>

\* ----------------------------------------- scrape.py: _string_to_xpath_expr

MaxLabelLen == 4

Apostrophe == "'"
DoubleQuote == "\""

\* the characters of a label: a letter, the two quote characters, a comma
LabelChars == {"a", Apostrophe, DoubleQuote, ","}

\* string.split(sep): the parts between the occurrences of the character sep
RECURSIVE Split(_, _)
Split(s, sep) ==
    LET k == FirstIndexOf(s, sep)
    IN IF k = 0 THEN <<s>>
       ELSE <<SubSeq(s, 1, k - 1)>> \o Split(SubSeq(s, k + 1, Len(s)), sep)

\* sep.join(parts)
RECURSIVE Join(_, _)
Join(parts, sep) ==
    IF parts = <<>> THEN <<>>
    ELSE IF Len(parts) = 1 THEN parts[1]
    ELSE parts[1] \o sep \o Join(Tail(parts), sep)

\* f"'{p}'"
SingleQuoted(p) == <<Apostrophe>> \o p \o <<Apostrophe>>

ConcatOpen == <<"c", "o", "n", "c", "a", "t", "(">>

NaiveStringToXpathExpr(string) == SingleQuoted(string)

\* _string_to_xpath_expr, lines 32-40
StringToXpathExpr(string) ==
    IF Apostrophe \in Range(string)
    THEN LET parts == Split(string, Apostrophe)
             joined_parts == Join([k \in 1..Len(parts) |-> SingleQuoted(parts[k])],
                                  <<",", " ", DoubleQuote, Apostrophe, DoubleQuote, ",", " ">>)
         IN ConcatOpen \o joined_parts \o <<")">>
    ELSE SingleQuoted(string)

\* An XPath 1.0 literal at position k of e: a quote character, any characters
\* but that quote, the same quote. end is the position after it, 0 when there
\* is no literal at k.
XpathLiteral(e, k) ==
    IF k > Len(e) \/ e[k] \notin {Apostrophe, DoubleQuote} THEN [end |-> 0, value |-> <<>>]
    ELSE LET rest == SubSeq(e, k + 1, Len(e))
             close == FirstIndexOf(rest, e[k])
         IN IF close = 0 THEN [end |-> 0, value |-> <<>>]
            ELSE [end |-> k + close + 1, value |-> SubSeq(rest, 1, close - 1)]

\* the arguments of concat( from position k on: literals separated by commas
\* and optional blanks, closed by ")" at the end of the expression
RECURSIVE XpathConcatArgs(_, _, _, _)
XpathConcatArgs(e, k, value, count) ==
    LET lit == XpathLiteral(e, k)
        after == RunEnd(e, lit.end, {" "})
    IN IF lit.end = 0 THEN [ok |-> FALSE, value |-> <<>>]
       ELSE IF after = Len(e) /\ e[after] = ")"
       THEN [ok |-> count + 1 >= 2, value |-> value \o lit.value]
       ELSE IF after < Len(e) /\ e[after] = ","
       THEN XpathConcatArgs(e, RunEnd(e, after + 1, {" "}), value \o lit.value, count + 1)
       ELSE [ok |-> FALSE, value |-> <<>>]

\* the string the XPath engine computes for the expression interpolated at
\* lines 165-166: a literal or a concat() of literals
EvalXpathString(e) ==
    IF StartsWith(e, ConcatOpen)
    THEN XpathConcatArgs(e, Len(ConcatOpen) + 1, <<>>, 0)
    ELSE LET lit == XpathLiteral(e, 1)
         IN IF lit.end = Len(e) + 1 THEN [ok |-> TRUE, value |-> lit.value]
            ELSE [ok |-> FALSE, value |-> <<>>]

\* scrape_map, line 164: xpath_meta_name = _string_to_xpath_expr(td_text)
BuildXpathExpr ==
    /\ pc = "xpath_expr"
    /\ xpath_meta_name' = StringToXpathExpr(td_text)
    /\ pc' = "expr_built"
    /\ UNCHANGED <<ankiVars, plonkVars, scopeVars, log, browser, page, driver, quits, tdIdx, result,
                   inner_html, td_text, page_dom, target_div>>

\* -------------------------------------------- scrape.py: _get_raw_html_text

MaxChunks == 4

\* innerHTML is drawn as a concatenation of these pieces
MarkupChunks ==
    { <<"&">>, <<"a", "m", "p", ";">>, <<"l", "t", ";">>, <<"<", "!", "-">>, <<"-">>,
      <<"-", "-", ">">>, <<"x">> }

RECURSIVE Flatten(_)
Flatten(chunks) == IF chunks = <<>> THEN <<>> ELSE chunks[1] \o Flatten(Tail(chunks))

\* the first position from k on at which x occurs in s, 0 when there is none
RECURSIVE FindFrom(_, _, _)
FindFrom(s, x, k) ==
    IF k + Len(x) - 1 > Len(s) THEN 0
    ELSE IF SubSeq(s, k, k + Len(x) - 1) = x THEN k
    ELSE FindFrom(s, x, k + 1)

CommentOpen == <<"<", "!", "-", "-">>
CommentClose == <<"-", "-", ">">>

\* re.sub(r"<!--.*?-->", "", s, flags=re.DOTALL), line 45: from the first
\* "<!--" to the first "-->" that starts after it, again on what follows
RECURSIVE RemoveComments(_)
RemoveComments(s) ==
    LET open == FindFrom(s, CommentOpen, 1)
        close == IF open = 0 THEN 0 ELSE FindFrom(s, CommentClose, open + Len(CommentOpen))
    IN IF close = 0 THEN s
       ELSE SubSeq(s, 1, open - 1)
                \o RemoveComments(SubSeq(s, close + Len(CommentClose), Len(s)))

\* the named character references of html.unescape that these characters can
\* spell, with their legacy forms without ";"
Html5 ==
    { [name |-> <<"a", "m", "p">>, char |-> "&"],
      [name |-> <<"l", "t">>, char |-> "<"],
      [name |-> <<"g", "t">>, char |-> ">"] }

\* the characters [^\t\n\f <&#;] of a reference name
NameChars == {"a", "m", "p", "l", "t", "g", "x", "!", "-", ">"}

\* the longest n <= limit such that the first n characters of s spell a legacy
\* name, 0 when there is none
RECURSIVE LegacyPrefix(_, _)
LegacyPrefix(s, limit) ==
    IF limit < 2 THEN 0
    ELSE IF \E e \in Html5 : e.name = SubSeq(s, 1, limit) THEN limit
    ELSE LegacyPrefix(s, limit - 1)

\* html.unescape's replacement of one match "&" + s
ReplaceCharref(s) ==
    LET bare == IF s[Len(s)] = ";" THEN SubSeq(s, 1, Len(s) - 1) ELSE s
        n == LegacyPrefix(s, Len(s) - 1)
    IN IF \E e \in Html5 : e.name = bare
       THEN <<(CHOOSE e \in Html5 : e.name = bare).char>>
       ELSE IF n > 0
       THEN <<(CHOOSE e \in Html5 : e.name = SubSeq(s, 1, n)).char>> \o SubSeq(s, n + 1, Len(s))
       ELSE <<"&">> \o s

\* html.unescape(s), line 45: every "&" followed by 1 to 32 name characters
\* and an optional ";" is replaced, left to right, replacements are not rescanned
RECURSIVE Unescape(_)
Unescape(s) ==
    IF s = <<>> THEN <<>>
    ELSE IF s[1] # "&" THEN <<s[1]>> \o Unescape(Tail(s))
    ELSE LET nameEnd == RunEnd(s, 2, NameChars)
             stop == IF nameEnd <= Len(s) /\ s[nameEnd] = ";" THEN nameEnd + 1 ELSE nameEnd
         IN IF nameEnd = 2 THEN <<"&">> \o Unescape(Tail(s))
            ELSE ReplaceCharref(SubSeq(s, 2, stop - 1)) \o Unescape(SubSeq(s, stop, Len(s)))

\* _get_raw_html_text, lines 43-45
GetRawHtmlText(innerHTML) == Unescape(RemoveComments(innerHTML))

\* scrape_map, line 158: td_text = _get_raw_html_text(td)
ReadRawHtmlText ==
    /\ pc = "raw_text"
    /\ td_text' = GetRawHtmlText(inner_html)
    /\ pc' = "text_read"
    /\ UNCHANGED <<ankiVars, plonkVars, scopeVars, log, browser, page, driver, quits, tdIdx, result,
                   inner_html, xpath_meta_name, page_dom, target_div>>

\* ------------------------------------------------ scrape.py: load_map_list

\* a map container of the "Maps" page: its name, and whether it holds every
\* element that lines 97-117 look up
ContainerKinds == [name : Labels, complete : BOOLEAN]

\* _webdriver as entered by load_map_list, lines 51-61 and 85
StartDriverForMapList ==
    /\ pc = "map_list_start"
    /\ IF browser = "chrome"
       THEN /\ driver' = "open"
            /\ pc' = "map_list_load"
            /\ UNCHANGED log
       ELSE /\ log' = Append(log, [what |-> "chrome", item |-> <<browser>>])
            /\ IF browser = "firefox"
               THEN driver' = "open" /\ pc' = "map_list_load"
               ELSE driver' = "none" /\ pc' = "raised"
    /\ UNCHANGED <<ankiVars, plonkVars, scopeVars, resolverVars, browser, page, quits, tdIdx,
                   result>>

\* load_map_list, lines 86-92: driver.get raises when the page cannot be
\* loaded; the finally of _webdriver (line 66) quits the driver
LoadMapListPage ==
    /\ pc = "map_list_load"
    /\ \E loaded \in BOOLEAN :
          IF loaded
          THEN /\ pc' = "map_list_containers"
               /\ UNCHANGED <<driver, quits>>
          ELSE /\ pc' = "raised"
               /\ driver' = "quit"
               /\ quits' = quits + 1
    /\ UNCHANGED <<ankiVars, plonkVars, scopeVars, resolverVars, log, browser, page, tdIdx,
                   result>>

\* load_map_list, lines 95-129: one container; find_element raises
\* NoSuchElementException when an element is missing, nothing catches it
MapContainerStep ==
    /\ pc = "map_list_containers"
    /\ containerIdx <= Len(map_containers)
    /\ IF map_containers[containerIdx].complete
       THEN /\ maps_data' = Append(maps_data, map_containers[containerIdx].name)
            /\ containerIdx' = containerIdx + 1
            /\ UNCHANGED <<pc, driver, quits>>
       ELSE /\ pc' = "raised"
            /\ driver' = "quit"
            /\ quits' = quits + 1
            /\ UNCHANGED <<maps_data, containerIdx>>
    /\ UNCHANGED <<ankiVars, plonkVars, resolverVars, log, browser, page, tdIdx, result,
                   map_containers, country_links, countryIdx, pdfs>>

\* load_map_list, line 131, leaving the with block of line 85
ReturnMapList ==
    /\ pc = "map_list_containers"
    /\ containerIdx > Len(map_containers)
    /\ driver' = "quit"
    /\ quits' = quits + 1
    /\ pc' = "returned"
    /\ UNCHANGED <<ankiVars, plonkVars, scopeVars, resolverVars, log, browser, page, tdIdx,
                   result>>

\* ---------------------------- plonkit_llm/plonkit.py: process_all_pages

MaxCountries == 3

\* a country link: its name, and whether save_as_pdf succeeds on its page
CountryKinds == [name : Labels, savable : BOOLEAN]

\* process_all_pages, lines 160-161: start_driver tries Chrome only. When it
\* raises, line 178 prints and self.driver.quit() (line 180) raises
\* AttributeError, self.driver never having been set.
StartDriverForAllPages ==
    /\ pc = "all_pages_start"
    /\ IF browser = "chrome"
       THEN /\ driver' = "open"
            /\ pc' = "all_pages_main"
            /\ UNCHANGED log
       ELSE /\ log' = Append(log, [what |-> "main_process", item |-> <<browser>>])
            /\ driver' = "none"
            /\ pc' = "raised"
    /\ UNCHANGED <<ankiVars, plonkVars, scopeVars, resolverVars, browser, page, quits, tdIdx,
                   result>>

\* process_all_pages, lines 163-169: save_as_pdf and get_country_links catch
\* every exception themselves (lines 109-114, 154-156)
SaveMainPage ==
    /\ pc = "all_pages_main"
    /\ \E saved \in BOOLEAN :
          pdfs' = IF saved THEN Append(pdfs, <<"main_guide">>) ELSE pdfs
    /\ pc' = "all_pages_countries"
    /\ UNCHANGED <<ankiVars, plonkVars, resolverVars, log, browser, page, driver, quits,
                   tdIdx, result, map_containers, containerIdx, maps_data, country_links,
                   countryIdx>>

\* process_all_pages, lines 172-175: one country page
SaveCountryPage ==
    /\ pc = "all_pages_countries"
    /\ countryIdx <= Len(country_links)
    /\ pdfs' = IF country_links[countryIdx].savable
               THEN Append(pdfs, <<country_links[countryIdx].name>>)
               ELSE pdfs
    /\ countryIdx' = countryIdx + 1
    /\ UNCHANGED <<ankiVars, plonkVars, resolverVars, pc, log, browser, page, driver, quits,
                   tdIdx, result, map_containers, containerIdx, maps_data, country_links>>

\* process_all_pages, lines 179-180: the finally after the loop
QuitAfterAllPages ==
    /\ pc = "all_pages_countries"
    /\ countryIdx > Len(country_links)
    /\ driver' = "quit"
    /\ quits' = quits + 1
    /\ pc' = "returned"
    /\ UNCHANGED <<ankiVars, plonkVars, scopeVars, resolverVars, log, browser, page, tdIdx,
                   result>>

\* ------------------------------------------------------------------- specs

vars == <<pc, log, ankiVars, scrapeVars, plonkVars>>

\* the parts of the program a specification does not run
IdleResolver ==
    /\ inner_html = <<>>
    /\ td_text = <<>>
    /\ xpath_meta_name = <<>>
    /\ page_dom = <<>>
    /\ target_div = 0

IdleDeckId ==
    /\ hash_secret = <<>>
    /\ deck_id = <<>>

IdleDriver ==
    /\ browser = "chrome"
    /\ page = [table |-> FALSE, cells |-> <<>>]
    /\ driver = "none"
    /\ quits = 0
    /\ tdIdx = 1
    /\ result = <<>>

IdleScopes ==
    /\ map_containers = <<>>
    /\ containerIdx = 1
    /\ maps_data = <<>>
    /\ country_links = <<>>
    /\ countryIdx = 1
    /\ pdfs = <<>>

IdleScrape == IdleDriver /\ IdleResolver /\ IdleScopes

IdlePlonk ==
    /\ section_element = <<>>
    /\ content_block = <<>>
    /\ sections = <<>>
    /\ secIdx = 1
    /\ steps = <<>>
    /\ current_step = <<>>
    /\ classified = {}

ConfigsFor(names, maxK) ==
    { [custom_image |-> c, select_image |-> s] :
        c \in Dicts(names, CustomValues), s \in Dicts(names, (0 - maxK - 1)..(maxK + 2)) }

\* one call of create_anki_cards_from_meta on any fragment of up to MaxImgs images
InitCards ==
    /\ pc = "download"
    /\ meta_name = "m1"
    /\ meta_html_content \in SeqsUpTo(ImgElems, MaxImgs)
    /\ config \in ConfigsFor({"m1"}, MaxImgs)
    /\ responses \in [Urls -> HttpStatus]
    /\ responses[U3] = "200"
    /\ i = 0
    /\ download_results = <<>>
    /\ question_images = <<>>
    /\ cards = <<>>
    /\ disk = {}
    /\ log = <<>>
    /\ map_list = <<>>
    /\ mapIdx = 1
    /\ metas = <<>>
    /\ entryIdx = 1
    /\ deck = <<>>
    /\ new_media_files = <<>>
    /\ package = [decks |-> <<>>, media_files |-> <<>>]
    /\ IdleDeckId
    /\ IdleScrape
    /\ IdlePlonk

NextCards == DownloadStep \/ SelectQuestionImages \/ BuildNotes

SpecCards == InitCards /\ [][NextCards]_vars

Img(u) == [src |-> u, class |-> "c"]

\* the pages of the site: a MetaMap with the table of its page (table: whether
\* the table appears within the wait) and the fragment scrape_map finds per cell
SitePages ==
    { [name |-> "A", table |-> FALSE, metas |-> <<>>],
      [name |-> "A", table |-> TRUE,
       metas |-> << [name |-> "m1", html |-> <<Img(U1)>>] >>],
      [name |-> "B", table |-> TRUE,
       metas |-> << [name |-> "m1", html |-> <<Img(U3), Img(U1)>>],
                    [name |-> "m2", html |-> <<Img(U2)>>] >>],
      [name |-> "C", table |-> TRUE, metas |-> <<>>] }

PackageConfigs ==
    { [custom_image |-> <<>>, select_image |-> <<>>],
      [custom_image |-> [n \in {"m1"} |-> [kind |-> "str", str |-> <<XPng>>, list |-> <<>>]],
       select_image |-> [n \in {"m1"} |-> 2]],
      [custom_image |-> [n \in {"m2"} |-> [kind |-> "list", str |-> <<>>,
                                            list |-> << <<XPng>>, <<YPng>> >>]],
       select_image |-> [n \in {"m1"} |-> 1]] }

\* create_anki_package on a map_list of up to MaxMaps maps
InitPackage ==
    /\ pc = "package_loop"
    /\ map_list \in SeqsUpTo(SitePages, MaxMaps)
    /\ \A j, k \in 1..Len(map_list) : j # k => map_list[j].name # map_list[k].name
    /\ mapIdx = 1
    /\ config \in PackageConfigs
    /\ responses \in [Urls -> HttpStatus]
    /\ responses[U2] = "200"
    /\ responses[U3] # "exc"
    /\ package = [decks |-> <<>>, media_files |-> SetToSeq(CustomMediaFiles(config))]
    /\ meta_name = "m1"
    /\ meta_html_content = <<>>
    /\ i = 0
    /\ download_results = <<>>
    /\ question_images = <<>>
    /\ cards = <<>>
    /\ disk = {}
    /\ log = <<>>
    /\ metas = <<>>
    /\ entryIdx = 1
    /\ deck = <<>>
    /\ new_media_files = <<>>
    /\ IdleDeckId
    /\ IdleScrape
    /\ IdlePlonk

NextPackage ==
    \/ ScrapeMapReturns
    \/ ScrapeMapRaises
    \/ CallCreateCards
    \/ DownloadStep
    \/ SelectQuestionImages
    \/ BuildNotes
    \/ CollectCards
    \/ ReturnDeck
    \/ ReturnPackage

SpecPackage == InitPackage /\ [][NextPackage]_vars

IdleAnki ==
    /\ config = [custom_image |-> <<>>, select_image |-> <<>>]
    /\ responses = [u \in Urls |-> "200"]
    /\ meta_name = "m1"
    /\ meta_html_content = <<>>
    /\ i = 0
    /\ download_results = <<>>
    /\ question_images = <<>>
    /\ cards = <<>>
    /\ disk = {}
    /\ map_list = <<>>
    /\ mapIdx = 1
    /\ metas = <<>>
    /\ entryIdx = 1
    /\ deck = <<>>
    /\ new_media_files = <<>>
    /\ package = [decks |-> <<>>, media_files |-> <<>>]
    /\ IdleDeckId

\* scrape_map on a page of up to MaxCells cells
InitScrape ==
    /\ pc = "start"
    /\ log = <<>>
    /\ browser \in {"chrome", "firefox", "none"}
    /\ page \in [table : BOOLEAN, cells : SeqsUpTo(CellKinds, MaxCells)]
    /\ ~page.table => page.cells = <<>>
    /\ driver = "none"
    /\ quits = 0
    /\ tdIdx = 1
    /\ result = <<>>
    /\ IdleResolver
    /\ IdleScopes
    /\ IdleAnki
    /\ IdlePlonk

NextScrape == StartDriver \/ LoadPage \/ CellStep \/ ReturnResult

SpecScrape == InitScrape /\ [][NextScrape]_vars

\* one call of parse_step_content_section on any section of up to MaxNodes elements
InitClassify ==
    /\ pc = "classify"
    /\ log = <<>>
    /\ \E n \in 0..MaxNodes :
          \E kinds \in [1..n -> ElementKinds], depths \in DepthSeqs(n) :
              section_element = [k \in 1..n |-> Node(kinds[k], depths[k])]
    /\ content_block = <<>>
    /\ sections = <<>>
    /\ secIdx = 1
    /\ steps = <<>>
    /\ current_step = <<>>
    /\ classified = {}
    /\ IdleAnki
    /\ IdleScrape

NextClassify == Classify

SpecClassify == InitClassify /\ [][NextClassify]_vars

\* the segmenter of parse_subpage on up to MaxSections sections
InitSegment ==
    /\ pc = "segment"
    /\ log = <<>>
    /\ section_element = <<>>
    /\ content_block = <<>>
    /\ \E n \in 0..MaxSections : sections \in [1..n -> SectionKinds]
    /\ secIdx = 1
    /\ steps = <<>>
    /\ current_step = <<>>
    /\ classified = {}
    /\ IdleAnki
    /\ IdleScrape

NextSegment == SegmentSection \/ ReturnSteps

SpecSegment == InitSegment /\ [][NextSegment]_vars

\* the structural query of scrape_map on every page of up to MaxDomNodes elements
InitResolve ==
    /\ pc = "find"
    /\ log = <<>>
    /\ inner_html = <<>>
    /\ td_text = CellLabel
    /\ xpath_meta_name = <<>>
    /\ \E n \in 0..MaxDomNodes :
          \E kinds \in [1..n -> PageElementKinds], depths \in DepthSeqs(n) :
              page_dom = [k \in 1..n |-> PageNode(kinds[k], depths[k])]
    /\ target_div = 0
    /\ IdleDriver
    /\ IdleScopes
    /\ IdleAnki
    /\ IdlePlonk

NextResolve == FindElement

SpecResolve == InitResolve /\ [][NextResolve]_vars

\* _string_to_xpath_expr on every label of up to MaxLabelLen characters
InitXpathExpr ==
    /\ pc = "xpath_expr"
    /\ log = <<>>
    /\ inner_html = <<>>
    /\ \E n \in 0..MaxLabelLen : td_text \in [1..n -> LabelChars]
    /\ xpath_meta_name = <<>>
    /\ page_dom = <<>>
    /\ target_div = 0
    /\ IdleDriver
    /\ IdleScopes
    /\ IdleAnki
    /\ IdlePlonk

NextXpathExpr == BuildXpathExpr

SpecXpathExpr == InitXpathExpr /\ [][NextXpathExpr]_vars

\* _get_raw_html_text on every innerHTML of up to MaxChunks pieces
InitRawText ==
    /\ pc = "raw_text"
    /\ log = <<>>
    /\ \E n \in 0..MaxChunks :
          \E chunks \in [1..n -> MarkupChunks] : inner_html = Flatten(chunks)
    /\ td_text = <<>>
    /\ xpath_meta_name = <<>>
    /\ page_dom = <<>>
    /\ target_div = 0
    /\ IdleDriver
    /\ IdleScopes
    /\ IdleAnki
    /\ IdlePlonk

NextRawText == ReadRawHtmlText

SpecRawText == InitRawText /\ [][NextRawText]_vars

InitLoadMapList ==
    /\ pc = "map_list_start"
    /\ log = <<>>
    /\ browser \in {"chrome", "firefox", "none"}
    /\ \E n \in 0..MaxMaps : map_containers \in [1..n -> ContainerKinds]
    /\ containerIdx = 1
    /\ maps_data = <<>>
    /\ country_links = <<>>
    /\ countryIdx = 1
    /\ pdfs = <<>>
    /\ page = [table |-> FALSE, cells |-> <<>>]
    /\ driver = "none"
    /\ quits = 0
    /\ tdIdx = 1
    /\ result = <<>>
    /\ IdleResolver
    /\ IdleAnki
    /\ IdlePlonk

InitProcessAllPages ==
    /\ pc = "all_pages_start"
    /\ log = <<>>
    /\ browser \in {"chrome", "firefox", "none"}
    /\ map_containers = <<>>
    /\ containerIdx = 1
    /\ maps_data = <<>>
    /\ \E n \in 0..MaxCountries : country_links \in [1..n -> CountryKinds]
    /\ countryIdx = 1
    /\ pdfs = <<>>
    /\ page = [table |-> FALSE, cells |-> <<>>]
    /\ driver = "none"
    /\ quits = 0
    /\ tdIdx = 1
    /\ result = <<>>
    /\ IdleResolver
    /\ IdleAnki
    /\ IdlePlonk

\* the three scopes that own a browser session, each run to its end: every
\* step of the code ends (the waits of lines 63 and 147 are bounded)
InitSession == InitScrape \/ InitLoadMapList \/ InitProcessAllPages

NextSession ==
    \/ NextScrape
    \/ StartDriverForMapList \/ LoadMapListPage \/ MapContainerStep \/ ReturnMapList
    \/ StartDriverForAllPages \/ SaveMainPage \/ SaveCountryPage \/ QuitAfterAllPages

SpecSession == InitSession /\ [][NextSession]_vars /\ WF_vars(NextSession)

\* create_anki_deck in two executions, each with the hash function of its own
\* interpreter
InitDeckId ==
    /\ pc = "deck_id"
    /\ log = <<>>
    /\ hash_secret \in [Executions -> [MapNames -> HashValues]]
    /\ deck_id = [e \in Executions |-> <<>>]
    /\ config = [custom_image |-> <<>>, select_image |-> <<>>]
    /\ responses = [u \in Urls |-> "200"]
    /\ meta_name = "m1"
    /\ meta_html_content = <<>>
    /\ i = 0
    /\ download_results = <<>>
    /\ question_images = <<>>
    /\ cards = <<>>
    /\ disk = {}
    /\ map_list = <<>>
    /\ mapIdx = 1
    /\ metas = <<>>
    /\ entryIdx = 1
    /\ deck = <<>>
    /\ new_media_files = <<>>
    /\ package = [decks |-> <<>>, media_files |-> <<>>]
    /\ IdleScrape
    /\ IdlePlonk

NextDeckId == CreateDeck

SpecDeckId == InitDeckId /\ [][NextDeckId]_vars

\* ------------------------------------------------------------------ claims

Fronts(notes) == [k \in 1..Len(notes) |-> notes[k].front]
Basenames(paths) == [k \in 1..Len(paths) |-> PathBasename(paths[k])]
HasCustom == meta_name \in DOMAIN config.custom_image
HasSelect == meta_name \in DOMAIN config.select_image

\* C1: the question images follow the strict precedence custom_image >
\* select_image > all downloaded images; with 3 downloaded images,
\* custom_image = ["x.png"] and select_image = 2 exactly one card is made and
\* its front image is x.png.
C1_OverridePrecedence ==
    pc = "returned" =>
        /\ HasCustom =>
              Fronts(cards) = Basenames(
                  IF config.custom_image[meta_name].kind = "str"
                  THEN <<config.custom_image[meta_name].str>>
                  ELSE config.custom_image[meta_name].list)
        /\ (~HasCustom /\ HasSelect /\ config.select_image[meta_name] \in 1..Len(download_results)) =>
              Fronts(cards) =
                  <<PathBasename(download_results[config.select_image[meta_name]])>>
        /\ (~HasCustom /\ ~HasSelect) => Fronts(cards) = Basenames(download_results)
        /\ ( /\ Len(download_results) = 3
             /\ HasCustom /\ HasSelect
             /\ config.custom_image[meta_name].kind = "list"
             /\ config.custom_image[meta_name].list = << <<XPng>> >>
             /\ config.select_image[meta_name] = 2 ) =>
              (Len(cards) = 1 /\ cards[1].front = XPng)

C1_Witness ==
    /\ pc = "returned"
    /\ Len(download_results) = 3
    /\ HasCustom /\ HasSelect
    /\ config.custom_image[meta_name].kind = "list"
    /\ config.custom_image[meta_name].list = << <<XPng>> >>
    /\ config.select_image[meta_name] = 2
    /\ Len(cards) = 1
    /\ cards[1].front = XPng

IndexLogged == \E k \in 1..Len(log) : log[k].what = "index"

\* C2: with no custom_image override and a select_image index k outside 1..n
\* (n downloaded images; k too large, k = 0 or k negative) the selection is
\* empty, no card is made and the condition is logged.
C2_OutOfRangeIsEmpty ==
    ( /\ pc = "returned"
      /\ ~HasCustom /\ HasSelect
      /\ config.select_image[meta_name] \notin 1..Len(download_results) ) =>
        (question_images = <<>> /\ cards = <<>> /\ IndexLogged)

\* the part of C2 the code does: k beyond n
C2_TooLargeIsEmpty ==
    ( /\ pc = "returned"
      /\ ~HasCustom /\ HasSelect
      /\ config.select_image[meta_name] > Len(download_results) ) =>
        (question_images = <<>> /\ cards = <<>> /\ IndexLogged)

C2_Witness ==
    /\ pc = "returned"
    /\ ~HasCustom /\ HasSelect
    /\ Len(download_results) = 3
    /\ config.select_image[meta_name] = 5
    /\ cards = <<>>

\* the paths of the images of html[1..n] that have a src the server answers 200
\* for, in document order
RECURSIVE SucceededPaths(_, _)
SucceededPaths(html, n) ==
    IF n = 0 THEN <<>>
    ELSE SucceededPaths(html, n - 1) \o
         (IF html[n].src # NoneVal /\ responses[html[n].src] = "200"
          THEN << <<Workdir, StripQuery(<<"image_", IdxStr(n - 1), "_">> \o Basename(html[n].src))>> >>
          ELSE <<>>)

\* C10: _download_images never aborts on an image failure: after k loop
\* iterations the result is exactly the paths of the first k images whose
\* download succeeded, in document order, and the loop runs over every image.
C10_DownloadsAreTheSuccesses ==
    /\ pc = "download" => download_results = SucceededPaths(meta_html_content, i)
    /\ pc \in {"notes", "returned"} =>
          download_results = SucceededPaths(meta_html_content, Len(meta_html_content))

C10_Witness ==
    /\ pc = "returned"
    /\ \E j, k \in 1..Len(meta_html_content) :
          /\ j < k
          /\ meta_html_content[j].src # NoneVal
          /\ responses[meta_html_content[j].src] # "200"
          /\ meta_html_content[k].src # NoneVal
          /\ responses[meta_html_content[k].src] = "200"
          /\ FilePath(Workdir, k - 1, meta_html_content[k].src) \in Range(download_results)

NoDuplicates(seq) == \A j, k \in 1..Len(seq) : j # k => seq[j] # seq[k]

\* C7: package.media_files holds each local path at most once, whatever maps
\* and entries were processed.
C7_MediaFilesDistinct == NoDuplicates(package.media_files)

\* the names of the maps whose page did not fault, in map_list order
RECURSIVE HealthyNames(_)
HealthyNames(maps) ==
    IF maps = <<>> THEN <<>>
    ELSE (IF maps[1].table THEN <<maps[1].name>> ELSE <<>>) \o HealthyNames(Tail(maps))

\* C8: a page whose table never appears is skipped alone: no fault leaves
\* create_anki_package, and the package returned holds the decks of all other
\* pages.
C8_FaultyPageIsSkipped ==
    /\ pc # "raised"
    /\ pc = "package_returned" =>
          [k \in 1..Len(package.decks) |-> package.decks[k].name] = HealthyNames(map_list)

\* the positions among the first n cells that resolved
OkCells(n) == {k \in 1..n : page.cells[k].outcome = "ok"}

\* C9: a failure at one cell is logged and skips that cell only: after n cells
\* the result maps exactly the labels of the cells that resolved (each to the
\* fragment of the last such cell), every failed cell has a log entry, and no
\* cell makes scrape_map raise.
C9_CellFailureSkipsOnlyThatCell ==
    /\ pc \in {"cells", "returned"} =>
          /\ Keys(result) = {page.cells[k].label : k \in OkCells(tdIdx - 1)}
          /\ \A e \in Range(result) :
                /\ e.html.cell \in OkCells(tdIdx - 1)
                /\ page.cells[e.html.cell].label = e.name
                /\ \A k \in OkCells(tdIdx - 1) :
                      page.cells[k].label = e.name => k <= e.html.cell
          /\ Cardinality({k \in 1..Len(log) : log[k].what \in CellOutcomes})
                = (tdIdx - 1) - Cardinality(OkCells(tdIdx - 1))
    /\ pc = "returned" => tdIdx = Len(page.cells) + 1
    /\ pc = "raised" => tdIdx = 1

C9_Witness ==
    /\ pc = "returned"
    /\ \E j, k \in 1..Len(page.cells) :
          /\ j < k
          /\ page.cells[j].outcome = "not_found"
          /\ page.cells[k].outcome = "ok"
          /\ page.cells[k].label \in Keys(result)

\* element a encloses element n
Encloses(dom, a, n) == a < n /\ \A j \in (a + 1)..n : dom[j].depth > dom[a].depth

\* the section holds an image nested in an anchor nested in a figure
HasLinkedFigureImage(dom) ==
    \E f, a, n \in 1..Len(dom) :
        /\ dom[f].tag = "figure" /\ dom[a].tag = "a" /\ dom[n].tag = "img"
        /\ Encloses(dom, f, a) /\ Encloses(dom, a, n)

HasImage(dom) == \E n \in 1..Len(dom) : dom[n].tag = "img"

\* C5: parse_step_content_section returns exactly one variant, first match
\* wins: figure > a > img gives TextWithImage (also beside a standalone
\* image), else any image gives ImageOnly, else TextOnly.
C5_ClassifierFirstMatchWins ==
    pc = "classified" =>
        /\ Len(content_block) = 1
        /\ content_block[1].kind =
              IF HasLinkedFigureImage(section_element) THEN "TextWithImageContentBlock"
              ELSE IF HasImage(section_element) THEN "ImageContentBlock"
              ELSE "TextContentBlock"

C5_Witness ==
    /\ pc = "classified"
    /\ HasLinkedFigureImage(section_element)
    /\ \E n \in 1..Len(section_element) :
          /\ section_element[n].tag = "img"
          /\ section_element[n].depth = 1
    /\ SectionText(section_element) # <<>>
    /\ content_block[1].kind = "TextWithImageContentBlock"

\* the absolute form C6 states: '//' first, then '/'
ClaimedAbsolute(url) ==
    IF StartsWith(url, <<"/", "/">>) THEN HttpsPrefix \o url
    ELSE IF StartsWith(url, <<"/">>) THEN SitePrefix \o url
    ELSE url

\* C6: every image source, figure-anchor href and in-text anchor href the
\* classifier returns is absolute: '//...' became 'https:' + url, '/...'
\* became 'https://www.plonkit.net' + url, anything else is unchanged.
C6_UrlsMadeAbsolute ==
    pc = "classified" =>
        LET dom == section_element
            block == content_block[1]
        IN /\ block.kind = "TextWithImageContentBlock" =>
                 /\ block.src_url =
                       OrEmpty(ClaimedAbsolute(ImgSrc(dom[First(FigureAImgMatches(dom))])))
                 /\ block.image_link_url =
                       OrEmpty(ClaimedAbsolute(dom[First(FigureAMatches(dom))].href))
           /\ block.kind = "ImageContentBlock" =>
                 block.src_url =
                     OrEmpty(ClaimedAbsolute(ImgSrc(dom[First(TagMatches(dom, "img"))])))
           /\ block.kind # "ImageContentBlock" =>
                 block.text =
                     Strip(ApplyReplacements(SectionText(dom),
                                             LinkReplacementsWith(dom, ClaimedAbsolute)))

\* the part of C6 the code does: root-relative and absolute image sources
C6_RootRelativeAndAbsoluteHold ==
    pc = "classified" =>
        LET dom == section_element
            block == content_block[1]
            img == First(TagMatches(dom, "img"))
        IN (block.kind = "ImageContentBlock" /\ ~StartsWith(ImgSrc(dom[img]), <<"/", "/">>))
              => block.src_url = OrEmpty(ClaimedAbsolute(ImgSrc(dom[img])))

\* the positions (from 1) of the sections whose text matches the heading pattern
Headings == { k \in 1..Len(sections) : StepMatch(Strip(SectionText(sections[k]))).matched }

BlockCounts == [k \in 1..Len(steps) |-> Len(steps[k].blocks)]

\* C3 as stated: 7 sections with the headings at positions 0, 3 and 5 (counted
\* from 0) give 3 steps with 3, 2 and 2 blocks.
C3_BlockCountsAsStated ==
    (pc = "returned" /\ Len(sections) = 7 /\ Headings = {1, 4, 6}) =>
        (Len(steps) = 3 /\ BlockCounts = <<3, 2, 2>>)

\* C3, amended: 7 sections with the headings at positions 0, 3 and 5 (counted
\* from 0) give 3 steps with 2, 1 and 1 blocks: a heading section is no block.
C3_BlockCountsOfTheCode ==
    (pc = "returned" /\ Len(sections) = 7 /\ Headings = {1, 4, 6}) =>
        (Len(steps) = 3 /\ BlockCounts = <<2, 1, 1>>)

C3_Witness ==
    /\ pc = "returned"
    /\ Len(sections) = 7
    /\ Headings = {1, 4, 6}
    /\ Len(steps) = 3
    /\ BlockCounts = <<2, 1, 1>>

\* C4: with no section matching the heading pattern parse_subpage returns zero
\* steps: no step is ever opened and no section is ever classified.
C4_NoHeadingNoSteps ==
    Headings = {} =>
        /\ steps = <<>>
        /\ current_step = <<>>
        /\ classified = {}

C4_Witness ==
    /\ pc = "returned"
    /\ Len(sections) >= 3
    /\ Headings = {}
    /\ HasImage(sections[1])
    /\ steps = <<>>

\* C11: create_anki_cards_from_meta returns one card per element of the
\* selected question-image list, in list order, each with the entry name as
\* title and the fragment without class attributes as back; an empty list
\* gives zero cards.
C11_OneCardPerQuestionImage ==
    pc = "returned" =>
        /\ Len(cards) = Len(question_images)
        /\ \A k \in 1..Len(cards) :
              /\ cards[k].title = meta_name
              /\ cards[k].front = question_images[k][Len(question_images[k])]
              /\ Len(cards[k].back) = Len(meta_html_content)
              /\ \A j \in 1..Len(meta_html_content) :
                    /\ cards[k].back[j].src = meta_html_content[j].src
                    /\ cards[k].back[j].class = ""

C11_Witness ==
    /\ pc = "returned"
    /\ Len(question_images) = 2
    /\ Len(cards) = 2
    /\ cards[1].front # cards[2].front
    /\ \E j \in 1..Len(meta_html_content) : meta_html_content[j].class # ""

\* the element whose child element c is (0 for an element at the top)
ParentOf(d, c) == First({ k \in 1..Len(d) : c \in ChildElements(d, k) })

\* a nested pair of elements that both satisfy the dual-containment predicate
NestedPairs ==
    { pair \in (1..Len(page_dom)) \X (1..Len(page_dom)) :
        /\ Inside(page_dom, pair[2], pair[1])
        /\ XpathCondition(page_dom, pair[1], MapName, td_text)
        /\ XpathCondition(page_dom, pair[2], MapName, td_text) }

\* C12: the div found by the structural query is never a child of the outer
\* element of a nested pair that both satisfy the dual-containment predicate:
\* its parent satisfies the predicate and has no descendant that does.
C12_InnermostMatchOnly ==
    target_div # 0 =>
        LET parent == ParentOf(page_dom, target_div)
        IN /\ parent # 0
           /\ XpathCondition(page_dom, parent, MapName, td_text)
           /\ \A pair \in NestedPairs : parent # pair[1]

C12_Witness ==
    /\ pc = "found"
    /\ NestedPairs # {}
    /\ \E pair \in NestedPairs : ParentOf(page_dom, target_div) = pair[2]

\* C13: for every label the expression built by _string_to_xpath_expr evaluates
\* to the label itself; it is a quoted literal when the label has no
\* apostrophe and a concat(...) otherwise.
C13_XpathExprEvaluatesToLabel ==
    pc = "expr_built" =>
        /\ EvalXpathString(xpath_meta_name) = [ok |-> TRUE, value |-> td_text]
        /\ StartsWith(xpath_meta_name, ConcatOpen) <=> (Apostrophe \in Range(td_text))

C13_Witness ==
    /\ pc = "expr_built"
    /\ td_text = <<Apostrophe, Apostrophe, "a", Apostrophe>>
    /\ EvalXpathString(xpath_meta_name).value = td_text

\* C14: text normalization is idempotent: normalizing the text that
\* _get_raw_html_text returned gives that text again.
C14_NormalizationIdempotent ==
    pc = "text_read" => GetRawHtmlText(td_text) = td_text

\* C15: a browser session that was started is eventually quit, exactly once,
\* on every exit path of scrape_map, load_map_list and process_all_pages, and
\* none is open once the function has returned or raised.
C15_SessionEventuallyQuitOnce ==
    /\ [](quits <= 1)
    /\ [](pc \in {"returned", "raised"} => driver # "open")
    /\ [](driver = "quit" <=> quits = 1)
    /\ (driver = "open") ~> (driver = "quit" /\ quits = 1 /\ pc \in {"returned", "raised"})

C15_Witness ==
    /\ pc = "raised"
    /\ driver = "quit"
    /\ quits = 1
    /\ page.cells = <<>>
    /\ ~page.table
    /\ map_containers = <<>>
    /\ country_links = <<>>
    /\ browser = "firefox"

\* C16: two executions that make a deck for the same meta_map.name give it the
\* same deck_id.
C16_DeckIdSameAcrossExecutions ==
    \A e1, e2 \in Executions :
        (/\ deck_id[e1] # <<>>
         /\ deck_id[e2] # <<>>
         /\ deck_id[e1][1].name = deck_id[e2][1].name)
            => deck_id[e1][1].deck_id = deck_id[e2][1].deck_id

\* the front images of all cards of all decks of the package, as file names
PackageFronts ==
    UNION { { package.decks[d].notes[k].front : k \in 1..Len(package.decks[d].notes) } :
              d \in 1..Len(package.decks) }

\* C17: the media files of the returned package are the front images of all
\* cards together with every custom image of the config, and nothing else.
C17_MediaAreFrontsAndCustomImages ==
    pc = "package_returned" =>
        { f[Len(f)] : f \in Range(package.media_files) }
            = PackageFronts \cup { c[Len(c)] : c \in CustomMediaFiles(config) }

\* C18: every key of the mapping scrape_map returns is non-empty and stands for
\* one cell only: the fragment of every cell that resolved is still in the
\* mapping, none was overwritten by a later cell with the same label.
C18_KeysIdentifyOneCell ==
    pc = "returned" =>
        /\ \A e \in Range(result) : e.name # ""
        /\ \A k \in OkCells(Len(page.cells)) :
              \E e \in Range(result) : e.name = page.cells[k].label /\ e.html.cell = k

\* the j-th heading section, in document order
HeadingAt(j) == CHOOSE h \in Headings : Cardinality({x \in Headings : x <= h}) = j

\* the position of the heading after h, or the position after the last section
BoundaryAfter(h) ==
    LET later == {x \in Headings : x > h} \cup {Len(sections) + 1}
    IN CHOOSE b \in later : \A x \in later : b <= x

\* the group the heading pattern captures in section h
CapturedGroup(h) == StepMatch(Strip(SectionText(sections[h]))).group

\* steps holds one step per heading, in heading order, and the blocks of each
\* are the sections between its heading and the next, in order
StepsFollowHeadings ==
    /\ Len(steps) = Cardinality(Headings)
    /\ \A j \in 1..Len(steps) :
          LET h == HeadingAt(j)
          IN /\ Len(steps[j].blocks) = BoundaryAfter(h) - h - 1
             /\ \A k \in 1..Len(steps[j].blocks) :
                   \E downloaded \in BOOLEAN :
                       steps[j].blocks[k] = ParseStepContentSection(sections[h + k], downloaded)

\* C19 as stated: one step per heading section, in heading order, titled with
\* the heading's captured group, its blocks the non-heading sections up to the
\* next heading; the last step is flushed; adjacent headings give a step
\* without blocks; no section is attached to two steps.
C19_StepTitleIsCapturedGroup ==
    pc = "returned" =>
        /\ StepsFollowHeadings
        /\ \A j \in 1..Len(steps) : steps[j].title = CapturedGroup(HeadingAt(j))

\* C19, amended: as above, the title being the captured group with the
\* whitespace at its ends stripped.
C19_OneStepPerHeading ==
    pc = "returned" =>
        /\ StepsFollowHeadings
        /\ \A j \in 1..Len(steps) : steps[j].title = Strip(CapturedGroup(HeadingAt(j)))
        /\ classified = { k \in 1..Len(sections) :
                            k \notin Headings /\ \E h \in Headings : h < k }

C19_Witness ==
    /\ pc = "returned"
    /\ Len(sections) = 5
    /\ Headings = {2, 3, 5}
    /\ Len(steps) = 3
    /\ steps[1].blocks = <<>>
    /\ Len(steps[2].blocks) = 1
    /\ steps[3].blocks = <<>>
    /\ steps[1].title # CapturedGroup(2)

\* C20: with a select_image index k and no custom_image override the card's
\* front is the k-th image of the fragment in document order (when that image
\* was downloaded), whatever happened to the other images of the entry.
C20_SelectCountsExtractedImages ==
    ( /\ pc = "returned"
      /\ ~HasCustom /\ HasSelect
      /\ config.select_image[meta_name] \in 1..Len(meta_html_content)
      /\ meta_html_content[config.select_image[meta_name]].src # NoneVal
      /\ responses[meta_html_content[config.select_image[meta_name]].src] = "200" ) =>
        LET k == config.select_image[meta_name]
        IN /\ Len(cards) = 1
           /\ cards[1].front = Filename(k - 1, meta_html_content[k].src)

\* the sections met while no step is open: the non-heading sections before the
\* first heading among the sections processed so far
PreStepSections ==
    { k \in 1..(secIdx - 1) : k \notin Headings /\ ~ \E h \in Headings : h < k }

\* C21: every skip is recorded in the log; in parse_subpage, the log holds at
\* least one entry for each non-heading section met while no step was open.
C21_EverySkipIsLogged == Len(log) >= Cardinality(PreStepSections)

\* the source URLs of the images of the entry a note was made from
NoteSources(note) == { note.back[j].src : j \in 1..Len(note.back) }

\* C22: when the package is returned, the file behind every card's front image
\* holds what was downloaded from an image of that card's own entry: no later
\* entry or map has written another URL to that path.
C22_FrontFileIsFromOwnEntry ==
    pc = "package_returned" =>
        \A d \in 1..Len(package.decks) :
            \A k \in 1..Len(package.decks[d].notes) :
                \A f \in disk :
                    f.path[Len(f.path)] = package.decks[d].notes[k].front
                        => f.url \in NoteSources(package.decks[d].notes[k])

====
